---- MODULE Spec2Model ----
(***************************************************************************)
(* A model of check_import_order.py: the import extractor, grouper,        *)
(* orderer and diff reporter, and the command-line loop of main().         *)
(*                                                                         *)
(* A Python str is a sequence of one-character strings, so that            *)
(* startswith, strip, split, join, the module-name regular expression and  *)
(* the ordering of strings are computed the way the interpreter computes   *)
(* them.                                                                   *)
(***************************************************************************)
EXTENDS Integers, Sequences, FiniteSets, TLC

VARIABLES
    clargs,           \* main: the parsed command line (standard, third_party, local, files)
    fs,               \* the file system: file name -> text, or no file
    env,              \* the interpreter: what __import__ finds for a module name
    pc,               \* where the run is
    idx,              \* main: index in clargs.files of the file the loop is at
    exit_status,      \* main: the failure count
    exit_code,        \* main: the status sys.exit gave the process (-1: none yet)
    stdout,           \* what was written to sys.stdout
    stderr,           \* what was written to sys.stderr
    py_file,          \* the file being checked
    imports_string,   \* get_import_lines' first result
    import_lines,     \* get_import_lines' second result
    override,         \* the override handed to construct_import_dict
    import_dict,      \* construct_import_dict's result
    ordered_imports,  \* get_ordered_imports' result
    ret,              \* verify_imports_order's result (-1: none yet)
    pass,             \* pipeline runs: 1 on the input text, 2 on the canonical text
    written           \* the canonical text written back for the second run

vars == <<clargs, fs, env, pc, idx, exit_status, exit_code, stdout, stderr,
          py_file, imports_string, import_lines, override, import_dict,
          ordered_imports, ret, pass, written>>

Range(s) == {s[i] : i \in DOMAIN s}

(***************************************************************************)
(* Characters and strings                                                  *)
(***************************************************************************)
LowerCase == <<"a","b","c","d","e","f","g","h","i","j","k","l","m",
               "n","o","p","q","r","s","t","u","v","w","x","y","z">>
UpperCase == <<"A","B","C","D","E","F","G","H","I","J","K","L","M",
               "N","O","P","Q","R","S","T","U","V","W","X","Y","Z">>
Digits == <<"0","1","2","3","4","5","6","7","8","9">>
Punctuation == {" ", "\t", "\n", "#", ",", ".", ";", "=", "_", "(", ")"}
Alphabet == Range(LowerCase) \cup Range(UpperCase) \cup Range(Digits) \cup Punctuation

IndexIn(seq, c) == CHOOSE i \in DOMAIN seq : seq[i] = c

\* The code point of a character: the order Python compares str by.
Ord == [c \in Alphabet |->
          IF c \in Range(LowerCase) THEN 96 + IndexIn(LowerCase, c)
          ELSE IF c \in Range(UpperCase) THEN 64 + IndexIn(UpperCase, c)
          ELSE IF c \in Range(Digits) THEN 47 + IndexIn(Digits, c)
          ELSE CASE c = "\t" -> 9  [] c = "\n" -> 10 [] c = " " -> 32
                 [] c = "#" -> 35  [] c = "(" -> 40  [] c = ")" -> 41
                 [] c = "," -> 44  [] c = "." -> 46  [] c = ";" -> 59
                 [] c = "=" -> 61  [] c = "_" -> 95]

\* str.lower on one character.
LowerChar == [c \in Alphabet |->
                IF c \in Range(UpperCase) THEN LowerCase[IndexIn(UpperCase, c)] ELSE c]

\* str.lower
Lower(s) == [i \in DOMAIN s |-> LowerChar[s[i]]]

\* The characters str.strip() and str.split() treat as whitespace.
Whitespace == {" ", "\t", "\n"}

\* The regular expression's class [A-Za-z_0-9\.]
ModuleChars == Range(LowerCase) \cup Range(UpperCase) \cup Range(Digits) \cup {"_", "."}

\* a < b for two str, as Python orders them: by code point, a proper prefix first.
RECURSIVE StrLess(_, _)
StrLess(a, b) ==
    IF b = <<>> THEN FALSE
    ELSE IF a = <<>> THEN TRUE
    ELSE IF a[1] # b[1] THEN Ord[a[1]] < Ord[b[1]]
    ELSE StrLess(Tail(a), Tail(b))

\* str.startswith
StartsWith(s, prefix) ==
    /\ Len(s) >= Len(prefix)
    /\ SubSeq(s, 1, Len(prefix)) = prefix

\* str.strip()
RECURSIVE LStrip(_)
LStrip(s) == IF s # <<>> /\ s[1] \in Whitespace THEN LStrip(Tail(s)) ELSE s
RECURSIVE RStrip(_)
RStrip(s) ==
    IF s # <<>> /\ s[Len(s)] \in Whitespace THEN RStrip(SubSeq(s, 1, Len(s) - 1)) ELSE s
Strip(s) == RStrip(LStrip(s))

\* sep.join(list)
RECURSIVE Join(_, _)
Join(list, sep) ==
    IF list = <<>> THEN <<>>
    ELSE IF Len(list) = 1 THEN list[1]
    ELSE list[1] \o sep \o Join(Tail(list), sep)

\* The positions of character c in s, and the k-th of a set of positions.
Positions(s, c) == {i \in DOMAIN s : s[i] = c}
Kth(P, k) == CHOOSE p \in P : Cardinality({q \in P : q < p}) = k - 1

\* str.split(sep) for a one-character sep: the pieces between the
\* separators, always at least one piece.
Split(s, sep) ==
    LET P == Positions(s, sep)
        n == Cardinality(P)
        cut(k) == IF k = 0 THEN 0 ELSE IF k = n + 1 THEN Len(s) + 1 ELSE Kth(P, k)
    IN  [k \in 1..(n + 1) |-> SubSeq(s, cut(k - 1) + 1, cut(k) - 1)]

\* str.split(): the words between runs of whitespace, no empty word.
RECURSIVE WordsAcc(_, _)
WordsAcc(s, cur) ==
    IF s = <<>> THEN (IF cur = <<>> THEN <<>> ELSE <<cur>>)
    ELSE IF s[1] \in Whitespace
         THEN (IF cur = <<>> THEN <<>> ELSE <<cur>>) \o WordsAcc(Tail(s), <<>>)
         ELSE WordsAcc(Tail(s), Append(cur, s[1]))
Words(s) == WordsAcc(s, <<>>)

\* file.readlines(): the lines of a text, each with its "\n" but for a last
\* line that has none.
ReadLines(text) ==
    LET P == Positions(text, "\n")
        n == Cardinality(P)
        last == IF n = 0 THEN 0 ELSE Kth(P, n)
        cut(k) == IF k = 0 THEN 0 ELSE Kth(P, k)
        ended == [k \in 1..n |-> SubSeq(text, cut(k - 1) + 1, cut(k))]
    IN  IF last = Len(text) THEN ended
        ELSE Append(ended, SubSeq(text, last + 1, Len(text)))

(***************************************************************************)
(* The functions of check_import_order.py                                  *)
(***************************************************************************)
kw_import == <<"i","m","p","o","r","t">>
kw_from == <<"f","r","o","m">>
kw_from_future == kw_from \o <<" ","_","_","f","u","t","u","r","e","_","_">>

Categories == <<"standard", "third_party", "local">>

EMPTY_OVERRIDE == [standard |-> <<>>, third_party |-> <<>>, local |-> <<>>]

\* `x in list`
In(x, list) == \E i \in DOMAIN list : list[i] = x

\* The longest prefix of s made of characters of the class.
RECURSIVE TakeWhile(_, _)
TakeWhile(s, class) ==
    IF s # <<>> /\ s[1] \in class THEN <<s[1]>> \o TakeWhile(Tail(s), class) ELSE <<>>

\* re.search(r'^(from|import) (?P<module>[A-Za-z_0-9\.]+).*$', imprt_line):
\* the keyword and one space at the start of the string, the longest run of
\* module characters, then anything but a newline up to the end of the
\* string or to a last newline. match = FALSE is the ValueError.
get_module_name_from_import(imprt_line) ==
    LET kw == IF StartsWith(imprt_line, kw_from \o <<" ">>) THEN kw_from \o <<" ">>
              ELSE IF StartsWith(imprt_line, kw_import \o <<" ">>) THEN kw_import \o <<" ">>
              ELSE <<>>
        after == SubSeq(imprt_line, Len(kw) + 1, Len(imprt_line))
        module == TakeWhile(after, ModuleChars)
        rest == SubSeq(after, Len(module) + 1, Len(after))
    IN  IF /\ kw # <<>>
           /\ module # <<>>
           /\ \A i \in DOMAIN rest : rest[i] = "\n" => i = Len(rest)
        THEN [match |-> TRUE, module |-> module]
        ELSE [match |-> FALSE, module |-> <<>>]

\* What __import__ finds: nothing (ImportError), or a module, of which the
\* code reads only which of these markers its repr contains.
ReprMarkers == {"site-packages", "usr/lib/python", "usr/lib64/python", "built-in"}
NoModule == [found |-> FALSE, repr |-> {}]

\* load_module: the module, or None with "Cannot import" printed.
load_module(module_name) ==
    IF module_name \in DOMAIN env /\ env[module_name].found
    THEN [module |-> env[module_name], out |-> <<>>]
    ELSE [module |-> NoModule,
          out |-> <<[kind |-> "cannot_import", name |-> module_name]>>]

\* Variant of is_standard_module that does not consult the third_party and
\* local lists before loading the module.
is_standard_module_skips_other_lists(module, ovr) ==
    IF In(module, ovr.standard) THEN [val |-> TRUE, out |-> <<>>]
    ELSE LET m == load_module(module) IN
         IF ~m.module.found THEN [val |-> FALSE, out |-> m.out]
         ELSE [val |-> /\ "site-packages" \notin m.module.repr
                       /\ \E path \in {"usr/lib/python", "usr/lib64/python", "built-in"} :
                              path \in m.module.repr,
               out |-> m.out]

\* Variant of is_standard_module that consults the third_party list but
\* forgets the local one.
is_standard_module_forgets_local(module, ovr) ==
    IF In(module, ovr.standard) THEN [val |-> TRUE, out |-> <<>>]
    ELSE IF In(module, ovr.third_party) THEN [val |-> FALSE, out |-> <<>>]
    ELSE LET m == load_module(module) IN
         IF ~m.module.found THEN [val |-> FALSE, out |-> m.out]
         ELSE [val |-> /\ "site-packages" \notin m.module.repr
                       /\ \E path \in {"usr/lib/python", "usr/lib64/python", "built-in"} :
                              path \in m.module.repr,
               out |-> m.out]

is_standard_module(module, ovr) ==
    IF In(module, ovr.standard) THEN [val |-> TRUE, out |-> <<>>]
    ELSE IF In(module, ovr.third_party) \/ In(module, ovr.local)
         THEN [val |-> FALSE, out |-> <<>>]
    ELSE LET m == load_module(module) IN
         IF ~m.module.found THEN [val |-> FALSE, out |-> m.out]
         ELSE [val |-> /\ "site-packages" \notin m.module.repr
                       /\ \E path \in {"usr/lib/python", "usr/lib64/python", "built-in"} :
                              path \in m.module.repr,
               out |-> m.out]

is_third_party_module(module, ovr) ==
    IF In(module, ovr.third_party) THEN [val |-> TRUE, out |-> <<>>]
    ELSE IF In(module, ovr.standard) \/ In(module, ovr.local)
         THEN [val |-> FALSE, out |-> <<>>]
    ELSE LET m == load_module(module) IN
         IF ~m.module.found THEN [val |-> FALSE, out |-> m.out]
         ELSE [val |-> /\ "site-packages" \in m.module.repr
                       /\ \E path \in {"usr/lib/python", "usr/lib64/python"} :
                              path \in m.module.repr,
               out |-> m.out]

\* final_imports[key] += [import_line] on a defaultdict(list)
DictAppend(d, key, import_line) ==
    IF key \in DOMAIN d THEN [d EXCEPT ![key] = Append(@, import_line)]
    ELSE d @@ (key :> <<import_line>>)

\* The branch construct_import_dict takes for one module name, with what
\* the calls on the way print.
Classify(mod_name, ovr) ==
    LET std == is_standard_module(mod_name, ovr)
        tp == is_third_party_module(mod_name, ovr)
    IN  IF mod_name = <<".">> THEN [category |-> "local", out |-> <<>>]
        ELSE IF std.val THEN [category |-> "standard", out |-> std.out]
        ELSE IF tp.val THEN [category |-> "third_party", out |-> std.out \o tp.out]
        ELSE [category |-> "local", out |-> std.out \o tp.out]

\* construct_import_dict's loop from the given dict on; raised = TRUE is
\* the ValueError of get_module_name_from_import leaving the function.
RECURSIVE ConstructLoop(_, _, _, _)
ConstructLoop(lines, ovr, final_imports, out) ==
    IF lines = <<>> THEN [raised |-> FALSE, final_imports |-> final_imports, out |-> out]
    ELSE LET m == get_module_name_from_import(lines[1]) IN
         IF ~m.match THEN [raised |-> TRUE, final_imports |-> final_imports, out |-> out]
         ELSE LET c == Classify(m.module, ovr) IN
              ConstructLoop(Tail(lines), ovr,
                            DictAppend(final_imports, c.category, lines[1]),
                            out \o c.out)

construct_import_dict(lines, ovr) == ConstructLoop(lines, ovr, <<>>, <<>>)

\* key=lambda k: k.lower().split()[1]
SortKey(k) == Words(Lower(k))[2]

\* sorted(list, key=SortKey): stable, ascending.
RECURSIVE InsertByKey(_, _)
InsertByKey(sorted, x) ==
    IF sorted = <<>> THEN <<x>>
    ELSE IF StrLess(SortKey(x), SortKey(sorted[1])) THEN <<x>> \o sorted
    ELSE <<sorted[1]>> \o InsertByKey(Tail(sorted), x)
RECURSIVE SortedByKey(_)
SortedByKey(list) ==
    IF list = <<>> THEN <<>>
    ELSE InsertByKey(SortedByKey(SubSeq(list, 1, Len(list) - 1)), list[Len(list)])

\* grouped_imports[key] after get_ordered_imports' first loop.
JoinedCategory(grouped_imports, key) ==
    IF key \in DOMAIN grouped_imports
    THEN Join(SortedByKey(grouped_imports[key]), <<"\n">>)
    ELSE <<>>

\* Variant of get_ordered_imports that joins the three blocks without
\* leaving out the empty ones.
get_ordered_imports_keeps_empty(grouped_imports) ==
    LET blocks == [i \in DOMAIN Categories |-> JoinedCategory(grouped_imports, Categories[i])]
    IN  Join(blocks, <<"\n", "\n">>)

get_ordered_imports(grouped_imports) ==
    LET blocks == [i \in DOMAIN Categories |-> JoinedCategory(grouped_imports, Categories[i])]
    IN  Join(SelectSeq(blocks, LAMBDA b : b # <<>>), <<"\n", "\n">>)

\* [l + '\n' for l in text.split('\n')]
DiffLines(text) == LET ls == Split(text, "\n") IN [i \in DOMAIN ls |-> ls[i] \o <<"\n">>]

\* difflib.unified_diff: nothing for equal sequences, else the diff, kept
\* here as one entry holding the two sides it was computed from.
unified_diff(a, b, fromfile, tofile) ==
    IF a = b THEN <<>>
    ELSE <<[kind |-> "diff", fromfile |-> fromfile, tofile |-> tofile, a |-> a, b |-> b]>>

verify_imports_order(actual, expected, filename) ==
    LET d == unified_diff(DiffLines(actual), DiffLines(expected), filename, "expected")
    IN  [ret |-> IF d = <<>> THEN 0 ELSE 1, out |-> d]

\* The test get_import_lines makes of a line.
IsImportLine(line) ==
    \/ StartsWith(line, kw_import)
    \/ StartsWith(line, kw_from) /\ ~StartsWith(line, kw_from_future)

\* Variant of ScanLine that buffers a blank line before any import was seen.
ScanLine_buffers_leading_blank(st, line) ==
    IF IsImportLine(line)
    THEN [import_list |-> Append(st.import_list \o st.sub_list, Strip(line)),
          sub_list |-> <<>>]
    ELSE IF line = <<"\n">>
         THEN [st EXCEPT !.sub_list = Append(@, <<>>)]
         ELSE st

\* Variant of ScanLine that drops the pending blank lines at a line of
\* other content.
ScanLine_resets_on_content(st, line) ==
    IF IsImportLine(line)
    THEN [import_list |-> Append(st.import_list \o st.sub_list, Strip(line)),
          sub_list |-> <<>>]
    ELSE IF line = <<"\n">> /\ st.import_list # <<>>
         THEN [st EXCEPT !.sub_list = Append(@, <<>>)]
         ELSE [st EXCEPT !.sub_list = <<>>]

\* Variant of ScanLine that keeps no blank line at all.
ScanLine_drops_blank(st, line) ==
    IF IsImportLine(line)
    THEN [import_list |-> Append(st.import_list, Strip(line)), sub_list |-> <<>>]
    ELSE st

\* One turn of get_import_lines' loop.
ScanLine(st, line) ==
    IF IsImportLine(line)
    THEN [import_list |-> Append(st.import_list \o st.sub_list, Strip(line)),
          sub_list |-> <<>>]
    ELSE IF line = <<"\n">> /\ st.import_list # <<>>
         THEN [st EXCEPT !.sub_list = Append(@, <<>>)]
         ELSE st

\* get_import_lines' loop over the lines.
RECURSIVE ScanLines(_)
ScanLines(lines) ==
    IF lines = <<>> THEN [import_list |-> <<>>, sub_list |-> <<>>]
    ELSE ScanLine(ScanLines(SubSeq(lines, 1, Len(lines) - 1)), lines[Len(lines)])

get_import_lines(text) ==
    LET import_list == ScanLines(ReadLines(text)).import_list
    IN  [imports_string |-> Join(import_list, <<"\n">>),
         import_lines |-> SelectSeq(import_list, LAMBDA i : i # <<>>)]

\* os.path.isfile
NoFile == [exists |-> FALSE, text |-> <<>>]
File(text) == [exists |-> TRUE, text |-> text]

sanity_check(file) == fs[file].exists

\* _sanitize_cmd_line_opt
_sanitize_cmd_line_opt(cmd_line_opt) ==
    LET os == Split(cmd_line_opt, ",") IN [i \in DOMAIN os |-> Strip(os[i])]

\* The override main builds for construct_import_dict.
MainOverride ==
    [standard |-> _sanitize_cmd_line_opt(clargs.standard),
     third_party |-> _sanitize_cmd_line_opt(clargs.third_party),
     local |-> _sanitize_cmd_line_opt(clargs.third_party)]

(***************************************************************************)
(* Inputs                                                                  *)
(***************************************************************************)
MaxLines == 4
MaxFiles == 2

m_os == <<"o","s">>
m_cv == <<"c","v">>
m_dot == <<".">>

l_import_os     == kw_import \o <<" ">> \o m_os
l_import_os_sys == kw_import \o <<" ">> \o m_os \o <<",", " ", "s","y","s">>
l_import_cv     == kw_import \o <<" ">> \o m_cv
l_import_cv_pad == l_import_cv \o <<" ">>
l_from_dot      == kw_from \o <<" ", ".", " ">> \o kw_import \o <<" ", "f">>
l_from_future   == kw_from_future \o <<" ">> \o kw_import \o <<" ", "x">>
l_imports_eq    == kw_import \o <<"s", " ", "=", " ", "1">>
l_code          == <<"x", " ", "=", " ", "1">>
l_blank         == <<>>

\* The lines a checked file is made of: import lines (one with a list of
\* names, one with trailing whitespace, a relative one), a __future__
\* import, a line that starts with 'import' and is no statement, other
\* content and the blank line.
LinePool == {l_import_os, l_import_os_sys, l_import_cv_pad, l_from_dot,
             l_from_future, l_imports_eq, l_code, l_blank}

\* The text whose lines are the given ones, each ended by a newline.
RECURSIVE Text(_)
Text(lines) == IF lines = <<>> THEN <<>> ELSE lines[1] \o <<"\n">> \o Text(Tail(lines))

SeqsUpTo(S, n) == UNION {[1..k -> S] : k \in 0..n}

\* What __import__ can find for a name.
r_none        == NoModule
r_builtin     == [found |-> TRUE, repr |-> {"built-in"}]
r_stdlib      == [found |-> TRUE, repr |-> {"usr/lib/python"}]
r_third_party == [found |-> TRUE, repr |-> {"usr/lib/python", "site-packages"}]
r_elsewhere   == [found |-> TRUE, repr |-> {}]
LoadResults == {r_none, r_builtin, r_stdlib, r_third_party, r_elsewhere}

\* The interpreters, and the override and interpreter pairs the whole
\* pipeline is run under.
e_installed == (m_os :> r_stdlib) @@ (m_cv :> r_third_party)
e_bare      == (m_os :> r_elsewhere) @@ (m_cv :> r_none)
PipeEnvs == {e_installed, e_bare}
PipeConfigs == {[override |-> EMPTY_OVERRIDE, env |-> e_installed],
                [override |-> [standard |-> <<m_cv>>, third_party |-> <<>>, local |-> <<>>],
                 env |-> e_bare],
                [override |-> [standard |-> <<>>, third_party |-> <<m_os>>, local |-> <<m_cv>>],
                 env |-> e_installed]}

\* The statements, override lists and interpreters classification is run under.
StatementPool == {l_import_os, l_import_os_sys, l_import_cv, l_from_dot, l_imports_eq}
OverrideLists == {<<>>, <<m_os>>, <<m_cv, m_os>>, <<m_dot>>}
ClassifyEnvs == [{m_os, m_cv} -> LoadResults]

\* The command lines and files main is run on.
OptionPool == {<<>>, m_os, m_cv, m_os \o <<",", " ">> \o m_cv}
MainFilePool == {NoFile,
                 File(<<>>),
                 File(Text(<<l_import_os, l_import_cv>>)),
                 File(Text(<<l_import_os, l_blank, l_import_cv>>)),
                 File(Text(<<l_import_cv, l_code, l_import_os>>)),
                 File(Text(<<l_import_os, l_imports_eq>>))}
MainEnvs == PipeEnvs

NoDict == <<>>

(***************************************************************************)
(* The pipeline, one function at a time, on one file                       *)
(***************************************************************************)
PipeStart(file_text, ovr, e) ==
    /\ clargs = [standard |-> <<>>, third_party |-> <<>>, local |-> <<>>, files |-> <<1>>]
    /\ fs = (1 :> File(file_text))
    /\ env = e
    /\ idx = 1
    /\ exit_status = 0
    /\ exit_code = -1
    /\ stdout = <<>>
    /\ stderr = <<>>
    /\ py_file = 1
    /\ override = ovr
    /\ import_dict = NoDict
    /\ ordered_imports = <<>>
    /\ ret = -1
    /\ pass = 1
    /\ written = <<>>

\* A file of up to MaxLines lines, about to be read.
PipeInit ==
    \E lines \in SeqsUpTo(LinePool, MaxLines), cfg \in PipeConfigs :
        /\ PipeStart(Text(lines), cfg.override, cfg.env)
        /\ pc = "get_import_lines"
        /\ imports_string = <<>>
        /\ import_lines = <<>>

\* A statement handed to construct_import_dict with any override lists.
ClassifyInit ==
    \E stmt \in StatementPool, e \in ClassifyEnvs,
       ovr \in [standard : OverrideLists, third_party : OverrideLists, local : OverrideLists] :
        /\ PipeStart(stmt, ovr, e)
        /\ pc = "construct_import_dict"
        /\ imports_string = stmt
        /\ import_lines = <<stmt>>

GetImportLines ==
    /\ pc = "get_import_lines"
    /\ LET r == get_import_lines(fs[py_file].text) IN
        /\ imports_string' = r.imports_string
        /\ import_lines' = r.import_lines
    /\ pc' = "construct_import_dict"
    /\ UNCHANGED <<clargs, fs, env, idx, exit_status, exit_code, stdout, stderr, py_file,
                   override, import_dict, ordered_imports, ret, pass, written>>

ConstructImportDict ==
    /\ pc = "construct_import_dict"
    /\ LET r == construct_import_dict(import_lines, override) IN
        /\ ~r.raised
        /\ import_dict' = r.final_imports
        /\ stdout' = stdout \o r.out
    /\ pc' = "get_ordered_imports"
    /\ UNCHANGED <<clargs, fs, env, idx, exit_status, exit_code, stderr, py_file,
                   imports_string, import_lines, override, ordered_imports, ret, pass,
                   written>>

\* get_module_name_from_import's ValueError leaves construct_import_dict.
ConstructImportDictRaises ==
    /\ pc = "construct_import_dict"
    /\ LET r == construct_import_dict(import_lines, override) IN
        /\ r.raised
        /\ stdout' = stdout \o r.out
    /\ pc' = "raised"
    /\ UNCHANGED <<clargs, fs, env, idx, exit_status, exit_code, stderr, py_file,
                   imports_string, import_lines, override, import_dict, ordered_imports,
                   ret, pass, written>>

\* get_ordered_imports leaves its argument holding the joined blocks.
GetOrderedImports ==
    /\ pc = "get_ordered_imports"
    /\ ordered_imports' = get_ordered_imports(import_dict)
    /\ import_dict' = [k \in Range(Categories) |-> JoinedCategory(import_dict, k)]
    /\ pc' = "verify_imports_order"
    /\ UNCHANGED <<clargs, fs, env, idx, exit_status, exit_code, stdout, stderr, py_file,
                   imports_string, import_lines, override, ret, pass, written>>

VerifyImportsOrder ==
    /\ pc = "verify_imports_order"
    /\ LET v == verify_imports_order(imports_string, ordered_imports, py_file) IN
        /\ ret' = v.ret
        /\ stdout' = stdout \o v.out
    /\ pc' = "done"
    /\ UNCHANGED <<clargs, fs, env, idx, exit_status, exit_code, stderr, py_file,
                   imports_string, import_lines, override, import_dict, ordered_imports,
                   pass, written>>

\* The canonical text is written to the file and the pipeline run on it again.
WriteCanonical ==
    /\ pc = "done"
    /\ pass = 1
    /\ fs' = [fs EXCEPT ![py_file] = File(ordered_imports)]
    /\ written' = ordered_imports
    /\ pass' = 2
    /\ pc' = "get_import_lines"
    /\ stdout' = <<>>
    /\ imports_string' = <<>>
    /\ import_lines' = <<>>
    /\ import_dict' = NoDict
    /\ ordered_imports' = <<>>
    /\ ret' = -1
    /\ UNCHANGED <<clargs, env, idx, exit_status, exit_code, stderr, py_file, override>>

PipeNext ==
    \/ GetImportLines
    \/ ConstructImportDict
    \/ ConstructImportDictRaises
    \/ GetOrderedImports
    \/ VerifyImportsOrder
    \/ WriteCanonical

PipeSpec == PipeInit /\ [][PipeNext]_vars
ClassifySpec == ClassifyInit /\ [][PipeNext]_vars

(***************************************************************************)
(* main()                                                                  *)
(***************************************************************************)
Init ==
    \E n \in 1..MaxFiles :
    \E files \in [1..n -> MainFilePool], e \in MainEnvs,
       opts \in [standard : OptionPool, third_party : OptionPool, local : OptionPool] :
        /\ clargs = [standard |-> opts.standard, third_party |-> opts.third_party,
                     local |-> opts.local, files |-> [i \in 1..n |-> i]]
        /\ fs = files
        /\ env = e
        /\ pc = "loop"
        /\ idx = 1
        /\ exit_status = 0
        /\ exit_code = -1
        /\ stdout = <<>>
        /\ stderr = <<>>
        /\ py_file = 0
        /\ imports_string = <<>>
        /\ import_lines = <<>>
        /\ override = EMPTY_OVERRIDE
        /\ import_dict = NoDict
        /\ ordered_imports = <<>>
        /\ ret = -1
        /\ pass = 1
        /\ written = <<>>

\* Variant of SkipMissingFile that does not count the missing file.
SkipMissingFile_not_counted ==
    /\ pc = "loop"
    /\ idx <= Len(clargs.files)
    /\ ~sanity_check(clargs.files[idx])
    /\ py_file' = clargs.files[idx]
    /\ stderr' = Append(stderr, [kind |-> "doesnt_exist", file |-> clargs.files[idx]])
    /\ idx' = idx + 1
    /\ UNCHANGED <<clargs, fs, env, pc, exit_status, exit_code, stdout, imports_string,
                   import_lines, override, import_dict, ordered_imports, ret, pass, written>>

\* sanity_check fails: the message, the count, the next file.
SkipMissingFile ==
    /\ pc = "loop"
    /\ idx <= Len(clargs.files)
    /\ ~sanity_check(clargs.files[idx])
    /\ py_file' = clargs.files[idx]
    /\ stderr' = Append(stderr, [kind |-> "doesnt_exist", file |-> clargs.files[idx]])
    /\ exit_status' = exit_status + 1
    /\ idx' = idx + 1
    /\ UNCHANGED <<clargs, fs, env, pc, exit_code, stdout, imports_string, import_lines,
                   override, import_dict, ordered_imports, ret, pass, written>>

\* One turn of main's loop on a file that exists and whose statements parse.
ProcessFile ==
    /\ pc = "loop"
    /\ idx <= Len(clargs.files)
    /\ sanity_check(clargs.files[idx])
    /\ LET g == get_import_lines(fs[clargs.files[idx]].text)
           c == construct_import_dict(g.import_lines, MainOverride)
           o == get_ordered_imports(c.final_imports)
           v == verify_imports_order(g.imports_string, o, clargs.files[idx])
       IN  /\ ~c.raised
           /\ py_file' = clargs.files[idx]
           /\ imports_string' = g.imports_string
           /\ import_lines' = g.import_lines
           /\ override' = MainOverride
           /\ import_dict' = [k \in Range(Categories) |-> JoinedCategory(c.final_imports, k)]
           /\ ordered_imports' = o
           /\ ret' = v.ret
           /\ stdout' = stdout \o c.out \o v.out
           /\ exit_status' = exit_status + v.ret
    /\ idx' = idx + 1
    /\ UNCHANGED <<clargs, fs, env, pc, exit_code, stderr, pass, written>>

\* Variant of ProcessFileRaises in which main catches the ValueError, counts
\* the file as a failure and goes on to the next one.
ProcessFileRaises_caught ==
    /\ pc = "loop"
    /\ idx <= Len(clargs.files)
    /\ sanity_check(clargs.files[idx])
    /\ LET g == get_import_lines(fs[clargs.files[idx]].text)
           c == construct_import_dict(g.import_lines, MainOverride)
       IN  /\ c.raised
           /\ py_file' = clargs.files[idx]
           /\ imports_string' = g.imports_string
           /\ import_lines' = g.import_lines
           /\ override' = MainOverride
           /\ stdout' = stdout \o c.out
    /\ exit_status' = exit_status + 1
    /\ idx' = idx + 1
    /\ UNCHANGED <<clargs, fs, env, pc, exit_code, stderr, import_dict,
                   ordered_imports, ret, pass, written>>

\* The turn in which construct_import_dict raises: nothing catches the
\* ValueError, and the interpreter ends the run with a traceback.
ProcessFileRaises ==
    /\ pc = "loop"
    /\ idx <= Len(clargs.files)
    /\ sanity_check(clargs.files[idx])
    /\ LET g == get_import_lines(fs[clargs.files[idx]].text)
           c == construct_import_dict(g.import_lines, MainOverride)
       IN  /\ c.raised
           /\ py_file' = clargs.files[idx]
           /\ imports_string' = g.imports_string
           /\ import_lines' = g.import_lines
           /\ override' = MainOverride
           /\ stdout' = stdout \o c.out
    /\ pc' = "raised"
    /\ UNCHANGED <<clargs, fs, env, idx, exit_status, exit_code, stderr, import_dict,
                   ordered_imports, ret, pass, written>>

\* sys.exit(exit_status > 0)
SysExit ==
    /\ pc = "loop"
    /\ idx > Len(clargs.files)
    /\ exit_code' = IF exit_status > 0 THEN 1 ELSE 0
    /\ pc' = "exited"
    /\ UNCHANGED <<clargs, fs, env, idx, exit_status, stdout, stderr, py_file,
                   imports_string, import_lines, override, import_dict, ordered_imports,
                   ret, pass, written>>

Next ==
    \/ SkipMissingFile
    \/ ProcessFile
    \/ ProcessFileRaises
    \/ SysExit

Spec == Init /\ [][Next]_vars

(***************************************************************************)
(* Properties of the extractor, the grouper and the orderer (PipeSpec)     *)
(***************************************************************************)
\* The file being checked, as readlines() gives it.
FileLines == ReadLines(fs[py_file].text)

\* get_import_lines has just returned.
Extracted == pc = "construct_import_dict"

\* get_ordered_imports has just returned.
Ordered == pc = "verify_imports_order"

\* The reconstructed block, line by line.
BlockLines == Split(imports_string, "\n")

\* The grouping construct_import_dict made of the extracted statements.
Grouping == construct_import_dict(import_lines, override).final_imports

\* The positions, in ascending order, of the import lines among the lines
\* of a file, and of the statements among the lines of a block.
ImportPositions(lines) ==
    SelectSeq([i \in DOMAIN lines |-> i], LAMBDA i : IsImportLine(lines[i]))
StatementPositions(block) ==
    SelectSeq([i \in DOMAIN block |-> i], LAMBDA i : block[i] # <<>>)

\* Between lines p and q of a file: the blank lines (a newline and nothing
\* else), and whether anything else is there.
BlanksBetween(lines, p, q) == Cardinality({k \in (p + 1)..(q - 1) : lines[k] = <<"\n">>})
ContentBetween(lines, p, q) == \E k \in (p + 1)..(q - 1) : lines[k] # <<"\n">>

\* C8 as stated: a blank line is kept only between import lines that
\* nothing but blank lines separates; blank lines next to other content
\* between two import lines, and those before the first import line, are
\* not in the reconstructed block.
C8_Original ==
    (Extracted /\ import_lines # <<>>) =>
        LET lines == FileLines
            block == BlockLines
            ip == ImportPositions(lines)
            sp == StatementPositions(block)
        IN  /\ Len(sp) = Len(ip)
            /\ block[1] # <<>>
            /\ block[Len(block)] # <<>>
            /\ \A j \in 1..(Len(ip) - 1) :
                  ContentBetween(lines, ip[j], ip[j + 1]) => sp[j + 1] - sp[j] - 1 = 0

\* C8 amended: every blank line (a line that is only a newline) lying
\* between two import lines is kept in the reconstructed block, whatever
\* other content lies between them; no blank line before the first or
\* after the last import line is, and no other content is.
C8_BlankLinesBetweenImportsKept ==
    (Extracted /\ import_lines # <<>>) =>
        LET lines == FileLines
            block == BlockLines
            ip == ImportPositions(lines)
            sp == StatementPositions(block)
        IN  /\ Len(sp) = Len(ip)
            /\ block[1] # <<>>
            /\ block[Len(block)] # <<>>
            /\ \A j \in 1..(Len(ip) - 1) :
                  sp[j + 1] - sp[j] - 1 = BlanksBetween(lines, ip[j], ip[j + 1])

\* C8's case: an import line, a blank line, other content, an import line.
C8_Witness ==
    /\ Extracted
    /\ pass = 1
    /\ LET lines == FileLines
           ip == ImportPositions(lines)
       IN  /\ Len(ip) = 2
           /\ ContentBetween(lines, ip[1], ip[2])
           /\ BlanksBetween(lines, ip[1], ip[2]) = 1
    /\ Len(BlockLines) = 3
    /\ BlockLines[2] = <<>>

\* C9: after any prefix of the file the collected sequence is empty or
\* begins and ends with a statement and the pending buffer holds blank
\* entries only; the block returned has no leading or trailing blank
\* entry, and the statement list returned is the import lines of the file,
\* stripped, in file order, which is the block without its blank entries.
C9_BlanksEmittedOnlyBeforeAnImport ==
    Extracted =>
        LET lines == FileLines
            block == BlockLines
            ip == ImportPositions(lines)
        IN  /\ \A k \in 0..Len(lines) :
                  LET st == ScanLines(SubSeq(lines, 1, k)) IN
                    /\ \/ st.import_list = <<>>
                       \/ /\ st.import_list[1] # <<>>
                          /\ st.import_list[Len(st.import_list)] # <<>>
                    /\ \A i \in DOMAIN st.sub_list : st.sub_list[i] = <<>>
            /\ import_lines = [j \in DOMAIN ip |-> Strip(lines[ip[j]])]
            /\ import_lines # <<>> =>
                  /\ block[1] # <<>>
                  /\ block[Len(block)] # <<>>
                  /\ import_lines = SelectSeq(block, LAMBDA l : l # <<>>)
            /\ import_lines = <<>> => imports_string = <<>>

\* C9's case: a blank line kept between two import lines and a blank line
\* after the last import line discarded.
C9_Witness ==
    /\ Extracted
    /\ pass = 1
    /\ LET lines == FileLines
       IN  /\ Len(lines) = 4
           /\ IsImportLine(lines[1])
           /\ lines[2] = <<"\n">>
           /\ IsImportLine(lines[3])
           /\ lines[4] = <<"\n">>
    /\ Len(import_lines) = 2
    /\ Len(BlockLines) = 3

\* C1: the pipeline run again on the canonical text it produced completes,
\* reconstructs a block equal to that text, computes the same canonical
\* text, returns 0 and writes no diff.
C1_PipelineIdempotent ==
    /\ pass = 2 => pc # "raised"
    /\ (pass = 2 /\ pc = "done") =>
          /\ imports_string = written
          /\ ordered_imports = written
          /\ ret = 0
          /\ \A i \in DOMAIN stdout : stdout[i].kind # "diff"

\* C1's case: the second run has finished on a canonical text of two
\* blocks, one of them of two statements.
C1_Witness ==
    /\ pass = 2
    /\ pc = "done"
    /\ Len(import_lines) = 3
    /\ Len(BlockLines) = 4

\* Two sequences hold the same elements the same number of times.
SameBag(a, b) ==
    /\ Len(a) = Len(b)
    /\ \A x \in Range(a) \cup Range(b) :
          Cardinality({i \in DOMAIN a : a[i] = x}) = Cardinality({i \in DOMAIN b : b[i] = x})

\* The blocks of a text: its lines, split at the blank ones.
BlocksOf(text) == Split(Split(text, "\n"), <<>>)

\* The categories a grouping holds, in the fixed order.
PresentIn(grouping) == SelectSeq(Categories, LAMBDA k : k \in DOMAIN grouping)

\* C4: the canonical text is the blocks of the categories present, in the
\* order standard, third_party, local, one blank line between two blocks;
\* it has no two consecutive blank lines and no leading or trailing blank
\* line, whichever categories are absent.
C4_BlocksInFixedOrderOneBlankBetween ==
    Ordered =>
        LET ls == Split(ordered_imports, "\n")
            blocks == Split(ls, <<>>)
            grouping == Grouping
            present == PresentIn(grouping)
        IN  /\ ordered_imports = <<>> <=> import_lines = <<>>
            /\ ordered_imports # <<>> =>
                  /\ ls[1] # <<>>
                  /\ ls[Len(ls)] # <<>>
                  /\ \A i \in 1..(Len(ls) - 1) : ~(ls[i] = <<>> /\ ls[i + 1] = <<>>)
                  /\ Len(blocks) = Len(present)
                  /\ \A i \in DOMAIN present : SameBag(blocks[i], grouping[present[i]])

\* C4's case: standard and local present, third_party absent.
C4_Witness ==
    /\ Ordered
    /\ pass = 1
    /\ DOMAIN Grouping = {"standard", "local"}
    /\ Len(BlocksOf(ordered_imports)) = 2
    /\ Len(Split(ordered_imports, "\n")) = 4

\* The statements sorted by lower-cased module name, equal names in their
\* original order.
ModuleKey(stmt) == Lower(get_module_name_from_import(stmt).module)
RECURSIVE InsertByModule(_, _)
InsertByModule(sorted, x) ==
    IF sorted = <<>> THEN <<x>>
    ELSE IF StrLess(ModuleKey(x), ModuleKey(sorted[1])) THEN <<x>> \o sorted
    ELSE <<sorted[1]>> \o InsertByModule(Tail(sorted), x)
RECURSIVE SortedByModule(_)
SortedByModule(list) ==
    IF list = <<>> THEN <<>>
    ELSE InsertByModule(SortedByModule(SubSeq(list, 1, Len(list) - 1)), list[Len(list)])

\* C5: each block of the canonical text is the statements of its category
\* in ascending order of lower-cased module name, statements of the same
\* module name in their original relative order.
C5_SortedByModuleNameStable ==
    (Ordered /\ ordered_imports # <<>>) =>
        LET blocks == BlocksOf(ordered_imports)
            grouping == Grouping
            present == PresentIn(grouping)
        IN  /\ Len(blocks) = Len(present)
            /\ \A i \in DOMAIN present : blocks[i] = SortedByModule(grouping[present[i]])

(***************************************************************************)
(* Properties of classification under override lists (ClassifySpec)        *)
(***************************************************************************)
\* construct_import_dict has returned and its result is as it left it.
Grouped == pc = "get_ordered_imports"

ModuleOf(stmt) == get_module_name_from_import(stmt).module

Overridden(m) ==
    In(m, override.standard) \/ In(m, override.third_party) \/ In(m, override.local)

\* The first list holding m, in the order standard, third_party, local.
FirstList(m) ==
    IF In(m, override.standard) THEN "standard"
    ELSE IF In(m, override.third_party) THEN "third_party"
    ELSE "local"

\* The statement is in the bucket of the category and in no other.
PlacedIn(stmt, category) ==
    \A k \in Range(Categories) :
        (k \in DOMAIN import_dict /\ In(stmt, import_dict[k])) <=> k = category

\* C2 as stated: a statement whose module name is in an override list is
\* placed in the category of the first list holding the name, whatever
\* load_module finds.
C2_Original ==
    Grouped =>
        \A i \in DOMAIN import_lines :
            Overridden(ModuleOf(import_lines[i])) =>
                PlacedIn(import_lines[i], FirstList(ModuleOf(import_lines[i])))

\* C2 amended: a statement whose module name is in an override list and is
\* not the relative-import name '.' is placed in the category of the first
\* list holding the name, in the order standard, third_party, local,
\* whatever load_module finds; a statement whose module name is '.' is
\* placed in local whatever the lists hold.
C2_FirstOverrideListDecides ==
    Grouped =>
        \A i \in DOMAIN import_lines :
            LET m == ModuleOf(import_lines[i]) IN
              /\ (Overridden(m) /\ m # m_dot) => PlacedIn(import_lines[i], FirstList(m))
              /\ m = m_dot => PlacedIn(import_lines[i], "local")

\* C2's case: a name in the third_party and local lists only, which the
\* interpreter finds in the standard library, is placed in third_party.
C2_Witness ==
    /\ Grouped
    /\ import_lines = <<l_import_os>>
    /\ ~In(m_os, override.standard)
    /\ In(m_os, override.third_party)
    /\ In(m_os, override.local)
    /\ env[m_os] = r_stdlib
    /\ PlacedIn(l_import_os, "third_party")

\* C3 as stated: a module name in the third_party or the local list is
\* never classified standard, by is_standard_module or by the bucket.
C3_Original ==
    Grouped =>
        \A i \in DOMAIN import_lines :
            LET m == ModuleOf(import_lines[i]) IN
              (In(m, override.third_party) \/ In(m, override.local)) =>
                  /\ ~is_standard_module(m, override).val
                  /\ ~PlacedIn(import_lines[i], "standard")

\* C3 amended: a module name in the third_party or the local list and not
\* in the standard list is never classified standard, by is_standard_module
\* or by the bucket, whatever load_module finds.
C3_OtherListsNeverStandard ==
    Grouped =>
        \A i \in DOMAIN import_lines :
            LET m == ModuleOf(import_lines[i]) IN
              ((In(m, override.third_party) \/ In(m, override.local))
                  /\ ~In(m, override.standard)) =>
                  /\ ~is_standard_module(m, override).val
                  /\ ~PlacedIn(import_lines[i], "standard")

\* C3's case: a name in the local list only, which the interpreter finds
\* in the standard library, is placed in local.
C3_Witness ==
    /\ Grouped
    /\ import_lines = <<l_import_os>>
    /\ override.standard = <<>>
    /\ override.third_party = <<>>
    /\ In(m_os, override.local)
    /\ env[m_os] = r_builtin
    /\ PlacedIn(l_import_os, "local")

(***************************************************************************)
(* Properties of main() (Spec)                                             *)
(***************************************************************************)
\* What main's turn computes for a file that exists.
StatementsOf(file) == get_import_lines(fs[file].text).import_lines
BlockOf(file) == get_import_lines(fs[file].text).imports_string
CanonicalOf(file) ==
    get_ordered_imports(construct_import_dict(StatementsOf(file), MainOverride).final_imports)

HasUnparseable(file) ==
    /\ fs[file].exists
    /\ \E i \in DOMAIN StatementsOf(file) :
          ~get_module_name_from_import(StatementsOf(file)[i]).match

MissingFiles == SelectSeq(clargs.files, LAMBDA f : ~fs[f].exists)

C7_LocalOptionForcesLocal ==
    (pc \in {"loop", "exited"} /\ py_file # 0 /\ fs[py_file].exists) =>
        \A i \in DOMAIN import_lines :
            LET m == ModuleOf(import_lines[i]) IN
              (/\ In(m, _sanitize_cmd_line_opt(clargs.local))
               /\ ~In(m, _sanitize_cmd_line_opt(clargs.standard))
               /\ ~In(m, _sanitize_cmd_line_opt(clargs.third_party))) =>
                  /\ "local" \in DOMAIN Grouping
                  /\ In(import_lines[i], Grouping["local"])

\* C10: the loop never goes past a file one of whose extracted statements
\* is unparseable: the run stops at that file with the ValueError, having
\* written no diff for it or for a later file and without a sys.exit
\* status, and nothing more happens; a run that ends through sys.exit met
\* no such file.
C10_UnparseableLineAbortsRun ==
    /\ \A i \in DOMAIN clargs.files : i < idx => ~HasUnparseable(clargs.files[i])
    /\ pc = "raised" =>
          /\ idx \in DOMAIN clargs.files
          /\ HasUnparseable(clargs.files[idx])
          /\ exit_code = -1
          /\ \A j \in DOMAIN stdout :
                stdout[j].kind = "diff" =>
                    \E i \in 1..(idx - 1) : stdout[j].fromfile = clargs.files[i]
          /\ ~ENABLED Next
    /\ pc = "exited" => \A i \in DOMAIN clargs.files : ~HasUnparseable(clargs.files[i])

\* C10's case: the first file has an unparseable line, a second file that
\* exists follows it, and the run has stopped at the first.
C10_Witness ==
    /\ pc = "raised"
    /\ idx = 1
    /\ Len(clargs.files) = 2
    /\ fs[2].exists
    /\ ~HasUnparseable(2)
    /\ stdout = <<>>

====
